---- MODULE Spec2Model ----
\* Model of the message-triggering core of pipsqueak3:
\*   src/src/packages/commands/rat_command.py
\* Strings are sequences of one-character strings, so that casefold,
\* startswith, the fact grammar and the reply formatting are computed.
EXTENDS Integers, Sequences, FiniteSets, TLC

VARIABLES registry, regResult, facts, missCount, task

vars == <<registry, regResult, facts, missCount, task>>

\* ---------------------------------------------------------------- bounds
\* number of unhandled messages after which no further dispatch is started
MaxMiss == 1

\* the dispatch tasks ("one concurrent task per inbound message")
Tasks == {1, 2}

\* ------------------------------------------------------------ characters
LowerSeq == <<"a","b","c","d","e","f","g","h","i","j","k","l","m",
              "n","o","p","q","r","s","t","u","v","w","x","y","z">>

UpperSeq == <<"A","B","C","D","E","F","G","H","I","J","K","L","M",
              "N","O","P","Q","R","S","T","U","V","W","X","Y","Z">>

Range(s) == {s[i] : i \in DOMAIN s}

\* pyparsing.alphas
alphas == Range(LowerSeq) \cup Range(UpperSeq)

nums == {"0","1","2","3","4","5","6","7","8","9"}

\* pyparsing.alphanums
alphanums == alphas \cup nums

\* the characters of a subject token: alphanums + '_[]|?.<>{}-='
subjectChars == alphanums \cup {"_","[","]","|","?",".","<",">","{","}","-","="}

\* pyparsing's default whitespace characters
whitespace == {" ", "\t", "\n", "\r"}

\* str.casefold() of one character (on the characters of the model: ASCII
\* letters are lowered, every other character is unchanged)
CasefoldChar(c) ==
  IF c \in Range(UpperSeq)
    THEN <<LowerSeq[CHOOSE i \in DOMAIN UpperSeq : UpperSeq[i] = c]>>
    ELSE <<c>>

RECURSIVE casefold(_)
casefold(s) ==
  IF s = <<>> THEN <<>> ELSE CasefoldChar(Head(s)) \o casefold(Tail(s))

\* str.startswith
startswith(s, p) == Len(s) >= Len(p) /\ SubSeq(s, 1, Len(p)) = p

\* the literal "Incoming Client:"
IncomingClient == <<"I","n","c","o","m","i","n","g"," ","C","l","i","e","n","t",":">>

\* ', '.join(users)
RECURSIVE join(_)
join(users) ==
  IF users = <<>> THEN <<>>
  ELSE IF Len(users) = 1 THEN users[1]
  ELSE users[1] \o <<",", " ">> \o join(Tail(users))

\* ------------------------------------------------------------ fact grammar
\* position of the first non-whitespace character at or after i
RECURSIVE SkipWhitespace(_, _)
SkipWhitespace(s, i) ==
  IF i <= Len(s) /\ s[i] \in whitespace THEN SkipWhitespace(s, i + 1) ELSE i

\* position after the longest run of characters of cs starting at i
RECURSIVE RunEnd(_, _, _)
RunEnd(s, i, cs) ==
  IF i <= Len(s) /\ s[i] \in cs THEN RunEnd(s, i + 1, cs) ELSE i

\* pyparsing Word(cs) tried at position i: leading whitespace is skipped,
\* then one or more characters of cs are taken greedily
Word(s, i, cs) ==
  LET b == SkipWhitespace(s, i)
      e == RunEnd(s, b, cs)
  IN  [ok |-> e > b, tok |-> SubSeq(s, b, e - 1), next |-> e]

\* Optional(Suppress('-') + Word(alphas)): the language token, or no match,
\* in which case the position stays where it was
OptionalLang(s, i) ==
  LET b == SkipWhitespace(s, i)
      l == Word(s, b + 1, alphas)
  IN  IF b <= Len(s) /\ s[b] = "-" /\ l.ok
        THEN [tok |-> l.tok, next |-> l.next]
        ELSE [tok |-> <<>>, next |-> i]

\* ZeroOrMore(Word(alphanums + '_[]|?.<>{}-='))
RECURSIVE Subjects(_, _)
Subjects(s, i) ==
  LET w == Word(s, i, subjectChars)
  IN  IF w.ok THEN <<w.tok>> \o Subjects(s, w.next) ELSE <<>>

\* pattern.parseString(line): ok = FALSE stands for ParseException;
\* text after the last matched token is ignored (no parseAll)
parseString(s) ==
  LET n == Word(s, 1, alphanums)
      l == OptionalLang(s, n.next)
  IN  IF n.ok
        THEN [ok |-> TRUE, name |-> n.tok, lang |-> l.tok,
              subjects |-> Subjects(s, l.next)]
        ELSE [ok |-> FALSE, name |-> <<>>, lang |-> <<>>, subjects |-> <<>>]

\* the default language code 'en'
DefaultLang == <<"e","n">>

\* the reply with the separator written unconditionally
FormatReplyAlwaysColon(users, message) ==
  join(users) \o <<":", " ">> \o message

\* f"{', '.join(users)}{': ' if users else ''}{fact.message}"
FormatReply(users, message) ==
  join(users) \o (IF users # <<>> THEN <<":", " ">> ELSE <<>>) \o message

\* ------------------------------------------------------------------ data
\* callables and None, as the dispatcher sees them
None == [kind |-> "None", underlying |-> "None", aliases |-> <<>>]

Function(f) == [kind |-> "function", underlying |-> f, aliases |-> <<>>]

handle_ratmama_announcement == Function("handle_ratmama_announcement")

sGo == <<"g","o">>

sGO == <<"G","O">>

sHi == <<"h","i">>

sHI == <<"H","I">>

sIncoming == <<"I","n","c","o","m","i","n","g">>

sFx == <<"f","x">>

sFr == <<"f","r">>

sHey == <<"h","e","y">>

\* the lines of text (words_eol[0]) that the transport delivers
Lines ==
  { <<>>,
    sGo,
    sGO \o <<" ","u">>,
    sFx,
    <<"F","x"," ","u"," ","v">>,
    <<"f","x","-","F","R"," ","u">>,
    <<"?","x">>,
    IncomingClient,
    IncomingClient \o <<" ","z">>,
    sHey,
    <<"f","x","_","u">> }

\* the messages delivered: a line, the prefix flag and whether the sender and
\* the place satisfy the permission and channel requirements of the command
\* the line names; senders that do not are considered for the line "go"
Contexts ==
  [line : Lines, prefixed : BOOLEAN, authorized : {TRUE}] \cup
  [line : {sGo}, prefixed : {TRUE}, authorized : {FALSE}]

\* the fact store before any other actor changed it: (name, lang) -> message
FactsInit ==
  (<<sFx, DefaultLang>> :> <<"o","k",":"," ","y">>) @@
  (<<sFx, sFr>> :> <<"o","u","i">>) @@
  (<<sGo, DefaultLang>> :> <<"g","!">>)

\* the facts that another actor deletes while the bot runs
Deletable == {<<sFx, DefaultLang>>}

\* the rules known to the Rule Resolver: the text a rule matches (compared
\* case-insensitively with the whole line), the kind of line it is for, its
\* handler and the arguments it extracts
Rules ==
  { [text |-> sGo, prefixless |-> FALSE,
     fun |-> Function("rule_go"), args |-> <<"x">>],
    [text |-> casefold(IncomingClient \o <<" ","z">>), prefixless |-> FALSE,
     fun |-> Function("rule_in"), args |-> <<"z">>],
    [text |-> casefold(IncomingClient \o <<" ","z">>), prefixless |-> TRUE,
     fun |-> Function("rule_in"), args |-> <<"z">>],
    [text |-> sHey, prefixless |-> TRUE,
     fun |-> Function("rule_hey"), args |-> <<>>] }

\* the arguments of the registration calls made at start-up
DecoratedFuncs == {"h1", "None"}

DecoratedAliases == { <<sGO>>, <<sHi, sHI>>, <<<<>>>>, <<>>, <<sIncoming>> }

\* the keyword arguments of @command for each alias tuple: "GO" is declared
\* with require_permission, the others keep the defaults
DecoratedKwargs(aliases) ==
  [require_permission |-> IF aliases = <<sGO>> THEN "TECHRAT" ELSE "None",
   require_channel |-> FALSE, require_direct_message |-> FALSE]

RegisteredFuncs == {None, Function("h2")}

\* a names argument is one string (isStr) or an iterable of strings
RegisteredNames ==
  { [isStr |-> TRUE, val |-> sGo],
    [isStr |-> TRUE, val |-> <<>>],
    [isStr |-> FALSE, val |-> <<sHi, sGo>>] }

\* --------------------------------------------------------------- Context
\* ctx.words[0]: the first whitespace-delimited word of the line
words0(line) ==
  LET b == SkipWhitespace(line, 1)
      e == RunEnd(line, b, Range(line) \ whitespace)
  IN  SubSeq(line, b, e - 1)

\* ctx.words: the whitespace-delimited words of the line
RECURSIVE words(_)
words(line) ==
  LET b == SkipWhitespace(line, 1)
      e == RunEnd(line, b, Range(line) \ whitespace)
  IN  IF b > Len(line) THEN <<>>
      ELSE <<SubSeq(line, b, e - 1)>> \o words(SubSeq(line, e, Len(line)))

\* ------------------------------------------------------------- Rule Resolver
\* get_rule(words, words_eol, prefixless): (handler, extra_args) or (None, ())
get_rule(line, prefixless) ==
  LET m == {r \in Rules : r.text = casefold(line) /\ r.prefixless = prefixless}
  IN  IF m = {} THEN [fun |-> None, args |-> <<>>]
      ELSE LET r == CHOOSE r \in m : TRUE IN [fun |-> r.fun, args |-> r.args]

\* ---------------------------------------------------------------- Registry
\* callable(func)
callable(func) == func.kind # "None"

\* the loop of _register replacing the entry of a name already present
RECURSIVE RegisterLoopOverwrite(_, _, _)
RegisterLoopOverwrite(reg, names, func) ==
  IF names = <<>> THEN [reg |-> reg, outcome |-> "True"]
  ELSE RegisterLoopOverwrite((Head(names) :> func) @@ reg, Tail(names), func)

\* the loop of _register over the case-folded names: the aliases are inserted
\* one by one, and the first one already present raises
RECURSIVE RegisterLoop(_, _, _)
RegisterLoop(reg, names, func) ==
  IF names = <<>> THEN [reg |-> reg, outcome |-> "True"]
  ELSE IF Head(names) \in DOMAIN reg
    THEN [reg |-> reg, outcome |-> "NameCollisionException"]
    ELSE RegisterLoop(reg @@ (Head(names) :> func), Tail(names), func)

\* _register storing the names as they were given
_registerAsGiven(reg, func, names) ==
  LET listed == IF names.isStr THEN <<names.val>> ELSE names.val
  IN  IF ~callable(func) THEN [reg |-> reg, outcome |-> "False"]
      ELSE RegisterLoop(reg, listed, func)

\* _register(func, names) run on the registry reg
_register(reg, func, names) ==
  LET listed == IF names.isStr THEN <<names.val>> ELSE names.val
      folded == [i \in DOMAIN listed |-> casefold(listed[i])]
  IN  IF ~callable(func) THEN [reg |-> reg, outcome |-> "False"]
      ELSE RegisterLoop(reg, folded, func)

\* truthy_validator(inst, attribute, value): TRUE when ValueError is raised
truthy_validator(value) == value = <<>>

\* Command(underlying=func, aliases=aliases, **kwargs): the object, or a
\* failed validation
Command(func, aliases, kwargs) ==
  IF func = "None" \/ truthy_validator(aliases)
    THEN [ok |-> FALSE, cmd |-> None]
    ELSE [ok |-> TRUE,
          cmd |-> [kind |-> "Command", underlying |-> func, aliases |-> aliases,
                   require_permission |-> kwargs.require_permission,
                   require_channel |-> kwargs.require_channel,
                   require_direct_message |-> kwargs.require_direct_message]]

\* ---------------------------------------------------------------- dispatch
\* the state of one dispatch: its Context, the locals of trigger and
\* handle_fact, and what it did to its collaborators so far
IdleTask ==
  [pc |-> "idle", line |-> <<>>, prefixed |-> FALSE, authorized |-> TRUE,
   command_fun |-> None, extra_args |-> <<>>,
   fact |-> <<>>, lang |-> <<>>, users |-> <<>>, message |-> <<>>,
   ruleCalls |-> <<>>, invoked |-> <<>>, factEntered |-> FALSE,
   existsCalls |-> <<>>, findCalls |-> <<>>, replies |-> <<>>,
   found |-> FALSE, storageError |-> FALSE, missed |-> 0,
   timerLabel |-> <<>>, timerStarted |-> 0, timerRecorded |-> 0,
   underlyingCalls |-> <<>>, handlerRaised |-> FALSE, overlapped |-> FALSE,
   outcome |-> "none", result |-> "None"]

\* the selection with the Rule Resolver asked before the registry
SelectRuleFirst(reg, line, prefixed) ==
  LET name == casefold(words0(line))
      rule == get_rule(line, ~prefixed)
      found == IF prefixed /\ name \in DOMAIN reg /\ rule.fun = None
                 THEN [fun |-> reg[name], args |-> <<>>, ruleCalls |-> <<FALSE>>]
                 ELSE [fun |-> rule.fun, args |-> rule.args,
                       ruleCalls |-> <<~prefixed>>]
  IN  IF startswith(line, IncomingClient)
        THEN [found EXCEPT !.fun = handle_ratmama_announcement]
        ELSE found

\* the selection with the announcement as a fallback instead of an override
SelectAnnouncementLast(reg, line, prefixed) ==
  LET name == casefold(words0(line))
      rule == get_rule(line, ~prefixed)
      found == IF prefixed /\ name \in DOMAIN reg
                 THEN [fun |-> reg[name], args |-> <<>>, ruleCalls |-> <<>>]
                 ELSE [fun |-> rule.fun, args |-> rule.args,
                       ruleCalls |-> <<~prefixed>>]
  IN  IF startswith(line, IncomingClient) /\ found.fun = None
        THEN [found EXCEPT !.fun = handle_ratmama_announcement]
        ELSE found

\* the selection with an override that also resets the extra arguments
SelectOverrideResetsArgs(reg, line, prefixed) ==
  LET name == casefold(words0(line))
      rule == get_rule(line, ~prefixed)
      found == IF prefixed /\ name \in DOMAIN reg
                 THEN [fun |-> reg[name], args |-> <<>>, ruleCalls |-> <<>>]
                 ELSE [fun |-> rule.fun, args |-> rule.args,
                       ruleCalls |-> <<~prefixed>>]
  IN  IF startswith(line, IncomingClient)
        THEN [found EXCEPT !.fun = handle_ratmama_announcement, !.args = <<>>]
        ELSE found

\* lines 129-152 of trigger: the handler and extra arguments selected
Select(reg, line, prefixed) ==
  LET name == casefold(words0(line))
      rule == get_rule(line, ~prefixed)
      found == IF prefixed /\ name \in DOMAIN reg
                 THEN [fun |-> reg[name], args |-> <<>>, ruleCalls |-> <<>>]
                 ELSE [fun |-> rule.fun, args |-> rule.args,
                       ruleCalls |-> <<~prefixed>>]
  IN  IF startswith(line, IncomingClient)
        THEN [found EXCEPT !.fun = handle_ratmama_announcement]
        ELSE found

\* lines 161-163 of trigger with a falsy result: TRIGGER_MISS.inc(), return None
Miss(t) == [t EXCEPT !.pc = "done", !.missed = @ + 1, !.outcome = "returned"]

\* handle_fact querying the store with the language as it was typed
FactStartRawLang(t) ==
  LET r == parseString(t.line)
      lang == IF r.lang # <<>> THEN r.lang ELSE DefaultLang
  IN  IF ~r.ok THEN Miss([t EXCEPT !.factEntered = TRUE])
      ELSE [t EXCEPT !.factEntered = TRUE, !.pc = "exists",
                     !.fact = r.name, !.lang = lang, !.users = r.subjects,
                     !.existsCalls = Append(@, <<casefold(r.name), lang>>)]

\* handle_fact up to its first await: parse, then call fact_manager.exists
FactStart(t) ==
  LET r == parseString(t.line)
      lang == IF r.lang # <<>> THEN r.lang ELSE DefaultLang
  IN  IF ~r.ok THEN Miss([t EXCEPT !.factEntered = TRUE])
      ELSE [t EXCEPT !.factEntered = TRUE, !.pc = "exists",
                     !.fact = r.name, !.lang = lang, !.users = r.subjects,
                     !.existsCalls = Append(@, <<casefold(r.name), casefold(lang)>>)]

\* command_fun(ctx, *extra_args) is called; a Command starts its timer and
\* awaits its underlying handler
Invoke(t) ==
  [t EXCEPT !.pc = "handler",
            !.invoked = Append(@, [fun |-> t.command_fun, args |-> t.extra_args]),
            !.timerLabel = IF t.command_fun.kind = "Command"
                             THEN t.command_fun.aliases[1] ELSE @,
            !.timerStarted = IF t.command_fun.kind = "Command" THEN @ + 1 ELSE @,
            !.underlyingCalls = IF t.command_fun.kind = "Command"
                                  THEN Append(@, t.command_fun.underlying) ELSE @]

\* trigger without the empty-message guard
TriggerStartNoGuard(reg, line, prefixed) ==
  LET t0 == [IdleTask EXCEPT !.line = line, !.prefixed = prefixed]
      sel == Select(reg, line, prefixed)
      t1 == [t0 EXCEPT !.command_fun = sel.fun, !.extra_args = sel.args,
                       !.ruleCalls = sel.ruleCalls]
  IN  IF t1.command_fun.kind # "None" THEN Invoke(t1)
      ELSE IF prefixed THEN FactStart(t1)
      ELSE Miss(t1)

\* trigger trying the fact fallback whatever the prefix flag
TriggerStartFactAlways(reg, line, prefixed) ==
  LET t0 == [IdleTask EXCEPT !.line = line, !.prefixed = prefixed]
      sel == Select(reg, line, prefixed)
      t1 == [t0 EXCEPT !.command_fun = sel.fun, !.extra_args = sel.args,
                       !.ruleCalls = sel.ruleCalls]
  IN  IF line = <<>> THEN [t0 EXCEPT !.pc = "done", !.outcome = "returned"]
      ELSE IF t1.command_fun.kind # "None" THEN Invoke(t1)
      ELSE FactStart(t1)

\* trigger(ctx) from its entry to its first suspension or its return
TriggerStart(reg, line, prefixed) ==
  LET t0 == [IdleTask EXCEPT !.line = line, !.prefixed = prefixed]
      sel == Select(reg, line, prefixed)
      t1 == [t0 EXCEPT !.command_fun = sel.fun, !.extra_args = sel.args,
                       !.ruleCalls = sel.ruleCalls]
  IN  IF line = <<>> THEN [t0 EXCEPT !.pc = "done", !.outcome = "returned"]
      ELSE IF t1.command_fun.kind # "None" THEN Invoke(t1)
      ELSE IF prefixed THEN FactStart(t1)
      ELSE Miss(t1)

InFlight(i) == task[i].pc \notin {"idle", "done"}

\* ------------------------------------------------------------------ actions
Init ==
  /\ registry = <<>>
  /\ regResult = "none"
  /\ facts = FactsInit
  /\ missCount = 0
  /\ task = [i \in Tasks |-> IdleTask]

\* an explicit registration call _register(func, names); registrations are
\* made at start-up, before the first message is dispatched
Register(func, names) ==
  /\ \A i \in Tasks : task[i].pc = "idle"
  /\ LET r == _register(registry, func, names)
     IN  /\ registry' = r.reg
         /\ regResult' = r.outcome
  /\ UNCHANGED <<facts, missCount, task>>

\* @command(*aliases) applied to func, at start-up
Decorate(func, aliases) ==
  /\ \A i \in Tasks : task[i].pc = "idle"
  /\ LET c == Command(func, aliases, DecoratedKwargs(aliases))
         r == _register(registry, c.cmd, [isStr |-> FALSE, val |-> aliases])
     IN  IF ~c.ok
           THEN /\ regResult' = "ValidationError"
                /\ UNCHANGED registry
           ELSE /\ registry' = r.reg
                /\ regResult' = IF r.outcome = "False"
                                   THEN "InvalidCommandException" ELSE r.outcome
  /\ UNCHANGED <<facts, missCount, task>>

\* trigger(ctx) is entered for a delivered message. Here the messages are
\* dispatched one after the other, all by the first task: the next dispatch
\* starts when the previous one is over
Trigger(i, line, prefixed, authorized) ==
  /\ ~InFlight(i)
  /\ \A j \in Tasks \ {i} : task[j].pc = "idle" /\ i < j
  /\ missCount < MaxMiss
  /\ task' = [task EXCEPT ![i] =
       [TriggerStart(registry, line, prefixed) EXCEPT !.authorized = authorized]]
  /\ missCount' = missCount + task'[i].missed
  /\ UNCHANGED <<registry, regResult, facts>>

\* what fact_manager.exists(name, lang) can answer, the store being as it is
\* now: whether the pair is stored, or psycopg2.Error
fact_manager_exists(key) ==
  {IF key \in DOMAIN facts THEN "True" ELSE "False", "Error"}

\* what fact_manager.find(name, lang) can answer: the stored Fact or
\* psycopg2.Error; for a pair that is not stored (any more) the interface does
\* not say how that is signalled: psycopg2.Error, or no Fact at all (None)
fact_manager_find(key) ==
  IF key \in DOMAIN facts THEN {"Fact", "Error"} ELSE {"None", "Error"}

\* a dispatch writing its own number of misses over the shared counter
ExistsReturnOwnCount(i, answer) ==
  LET t == task[i]
      key == t.existsCalls[Len(t.existsCalls)]
  IN  /\ t.pc = "exists"
      /\ answer \in fact_manager_exists(key)
      /\ task' = [task EXCEPT ![i] =
           IF answer = "Error" THEN Miss([t EXCEPT !.storageError = TRUE])
           ELSE IF answer = "False" THEN Miss(t)
           ELSE [t EXCEPT !.pc = "find",
                   !.findCalls = Append(@, <<casefold(t.fact), casefold(t.lang)>>)]]
      /\ missCount' = IF task'[i].missed > t.missed THEN task'[i].missed
                      ELSE missCount
      /\ UNCHANGED <<registry, regResult, facts>>

\* the await of fact_manager.exists completes; lines 189-194 and 197-199 of
\* handle_fact, then 161-163 of trigger
ExistsReturn(i, answer) ==
  LET t == task[i]
      key == t.existsCalls[Len(t.existsCalls)]
  IN  /\ t.pc = "exists"
      /\ answer \in fact_manager_exists(key)
      /\ task' = [task EXCEPT ![i] =
           IF answer = "Error" THEN Miss([t EXCEPT !.storageError = TRUE])
           ELSE IF answer = "False" THEN Miss(t)
           ELSE [t EXCEPT !.pc = "find",
                   !.findCalls = Append(@, <<casefold(t.fact), casefold(t.lang)>>)]]
      /\ missCount' = missCount + (task'[i].missed - t.missed)
      /\ UNCHANGED <<registry, regResult, facts>>

\* handle_fact without the except clause around find
FindReturnErrorEscapes(i, answer) ==
  LET t == task[i]
      key == t.findCalls[Len(t.findCalls)]
  IN  /\ t.pc = "find"
      /\ answer \in fact_manager_find(key)
      /\ task' = [task EXCEPT ![i] =
           IF answer = "Error"
             THEN [t EXCEPT !.pc = "done", !.outcome = "raised", !.storageError = TRUE]
           ELSE IF answer = "None" THEN [t EXCEPT !.pc = "done", !.outcome = "raised"]
           ELSE [t EXCEPT !.pc = "reply", !.found = TRUE, !.message = facts[key],
                   !.replies = Append(@, FormatReply(t.users, facts[key]))]]
      /\ missCount' = missCount + (task'[i].missed - t.missed)
      /\ UNCHANGED <<registry, regResult, facts>>

\* the await of fact_manager.find completes; lines 194-199 of handle_fact,
\* then 161-163 of trigger. psycopg2.Error is caught; fact.message on no Fact
\* raises AttributeError, which no except clause catches
FindReturn(i, answer) ==
  LET t == task[i]
      key == t.findCalls[Len(t.findCalls)]
  IN  /\ t.pc = "find"
      /\ answer \in fact_manager_find(key)
      /\ task' = [task EXCEPT ![i] =
           IF answer = "Error" THEN Miss([t EXCEPT !.storageError = TRUE])
           ELSE IF answer = "None" THEN [t EXCEPT !.pc = "done", !.outcome = "raised"]
           ELSE [t EXCEPT !.pc = "reply", !.found = TRUE, !.message = facts[key],
                   !.replies = Append(@, FormatReply(t.users, facts[key]))]]
      /\ missCount' = missCount + (task'[i].missed - t.missed)
      /\ UNCHANGED <<registry, regResult, facts>>

\* context.reply completes: handle_fact returns True, trigger returns None
ReplyReturn(i) ==
  /\ task[i].pc = "reply"
  /\ task' = [task EXCEPT ![i].pc = "done", ![i].outcome = "returned"]
  /\ UNCHANGED <<registry, regResult, facts, missCount>>

\* trigger falling back to the facts when the handler returns a falsy value
HandlerReturnFallsThrough(i, value) ==
  LET t == task[i]
      u == [t EXCEPT !.result = value,
              !.timerRecorded = IF t.command_fun.kind = "Command" THEN @ + 1 ELSE @]
  IN  /\ t.pc = "handler"
      /\ task' = [task EXCEPT ![i] =
           IF value = "None" /\ t.prefixed THEN FactStart(u)
           ELSE [u EXCEPT !.pc = "done", !.outcome = "returned"]]
      /\ missCount' = missCount + (task'[i].missed - t.missed)
      /\ UNCHANGED <<registry, regResult, facts>>

\* the invoked handler returns value: a Command records its timing, trigger
\* returns the value
HandlerReturn(i, value) ==
  LET t == task[i]
  IN  /\ t.pc = "handler"
      /\ task' = [task EXCEPT ![i] =
           [t EXCEPT !.pc = "done", !.outcome = "returned", !.result = value,
              !.timerRecorded = IF t.command_fun.kind = "Command" THEN @ + 1 ELSE @]]
      /\ UNCHANGED <<registry, regResult, facts, missCount>>

\* a Command whose timing is lost when its handler raises
HandlerRaiseUnrecorded(i) ==
  LET t == task[i]
  IN  /\ t.pc = "handler"
      /\ task' = [task EXCEPT ![i] =
           [t EXCEPT !.pc = "done", !.outcome = "raised", !.handlerRaised = TRUE]]
      /\ UNCHANGED <<registry, regResult, facts, missCount>>

\* trigger catching the handler's error and counting a miss
HandlerRaiseCaught(i) ==
  LET t == task[i]
  IN  /\ t.pc = "handler"
      /\ task' = [task EXCEPT ![i] =
           Miss([t EXCEPT !.handlerRaised = TRUE,
              !.timerRecorded = IF t.command_fun.kind = "Command" THEN @ + 1 ELSE @])]
      /\ missCount' = missCount + 1
      /\ UNCHANGED <<registry, regResult, facts>>

\* the invoked handler raises: a Command records its timing, the error leaves
\* trigger
HandlerRaise(i) ==
  LET t == task[i]
  IN  /\ t.pc = "handler"
      /\ task' = [task EXCEPT ![i] =
           [t EXCEPT !.pc = "done", !.outcome = "raised", !.handlerRaised = TRUE,
              !.timerRecorded = IF t.command_fun.kind = "Command" THEN @ + 1 ELSE @]]
      /\ UNCHANGED <<registry, regResult, facts, missCount>>

\* another actor deletes a fact from the store
StoreDelete(key) ==
  /\ key \in DOMAIN facts
  /\ key \in Deletable
  /\ facts' = [k \in DOMAIN facts \ {key} |-> facts[k]]
  /\ UNCHANGED <<registry, regResult, missCount, task>>

\* the values a handler returns
HandlerValues == {"None", "True"}

Next ==
  \/ \E func \in RegisteredFuncs, names \in RegisteredNames : Register(func, names)
  \/ \E func \in DecoratedFuncs, aliases \in DecoratedAliases : Decorate(func, aliases)
  \/ \E i \in Tasks, ctx \in Contexts :
       Trigger(i, ctx.line, ctx.prefixed, ctx.authorized)
  \/ \E i \in Tasks, answer \in {"True", "False", "Error"} : ExistsReturn(i, answer)
  \/ \E i \in Tasks, answer \in {"Fact", "None", "Error"} : FindReturn(i, answer)
  \/ \E i \in Tasks : ReplyReturn(i)
  \/ \E i \in Tasks, value \in HandlerValues : HandlerReturn(i, value)
  \/ \E i \in Tasks : HandlerRaise(i)
  \/ \E key \in DOMAIN FactsInit : StoreDelete(key)

Spec == Init /\ [][Next]_vars

\* ------------------------------------------------- concurrent dispatches
\* the registry after start-up: @command("GO", require_permission=TECHRAT)
\* was applied to h1
StartedRegistry ==
  _register(<<>>, Command("h1", <<sGO>>, DecoratedKwargs(<<sGO>>)).cmd,
            [isStr |-> FALSE, val |-> <<sGO>>]).reg

InitConcurrent ==
  /\ registry = StartedRegistry
  /\ regResult = "True"
  /\ facts = FactsInit
  /\ missCount = 0
  /\ task = [i \in Tasks |-> IdleTask]

\* trigger(ctx) is entered by a task of its own for each delivered message,
\* whatever the other tasks are doing; it runs up to its first await
TriggerConcurrent(i, line, prefixed, authorized) ==
  /\ task[i].pc = "idle"
  /\ task' = [task EXCEPT ![i] =
       [TriggerStart(registry, line, prefixed) EXCEPT
          !.authorized = authorized,
          !.overlapped = \E j \in Tasks \ {i} : InFlight(j)]]
  /\ missCount' = missCount + task'[i].missed
  /\ UNCHANGED <<registry, regResult, facts>>

NextConcurrent ==
  \/ \E i \in Tasks, ctx \in Contexts :
       TriggerConcurrent(i, ctx.line, ctx.prefixed, ctx.authorized)
  \/ \E i \in Tasks, answer \in {"True", "False", "Error"} : ExistsReturn(i, answer)
  \/ \E i \in Tasks, answer \in {"Fact", "None", "Error"} : FindReturn(i, answer)
  \/ \E i \in Tasks : ReplyReturn(i)
  \/ \E i \in Tasks, value \in HandlerValues : HandlerReturn(i, value)
  \/ \E i \in Tasks : HandlerRaise(i)
  \/ \E key \in DOMAIN FactsInit : StoreDelete(key)

SpecConcurrent == InitConcurrent /\ [][NextConcurrent]_vars

\* ================================================================== claims
\* C1: registration is all-or-nothing - a register call that fails with a
\* collision error leaves the registry exactly as it was before the call.
C1_AllOrNothing ==
  [][regResult' = "NameCollisionException" => registry' = registry]_vars

\* C2 as stated: in every dispatch whose prefix flag is set, whose case-folded
\* first word is a registry key and whose line does not start with the
\* sentinel, the registered Command is invoked with no extra arguments and the
\* Rule Resolver is not consulted.
C2_AsStated ==
  \A i \in Tasks :
    LET t == task[i]
        name == casefold(words0(t.line))
    IN  (t.pc # "idle" /\ t.prefixed /\ name \in DOMAIN registry
           /\ ~startswith(t.line, IncomingClient))
          => /\ t.invoked = <<[fun |-> registry[name], args |-> <<>>]>>
             /\ t.ruleCalls = <<>>

\* C2: in every dispatch of a non-empty message whose prefix flag is set,
\* whose case-folded first word is a registry key and whose line does not
\* start with the sentinel, the registered Command is invoked with no extra
\* arguments and the Rule Resolver is not consulted, also when a rule matches.
C2_CommandShadowsRule ==
  \A i \in Tasks :
    LET t == task[i]
        name == casefold(words0(t.line))
    IN  (t.pc # "idle" /\ t.line # <<>> /\ t.prefixed /\ name \in DOMAIN registry
           /\ ~startswith(t.line, IncomingClient))
          => /\ t.invoked = <<[fun |-> registry[name], args |-> <<>>]>>
             /\ t.ruleCalls = <<>>

\* a prefixed dispatch is over whose first word is a registered alias, for a
\* line that a prefixed rule matches too
C2_Witness ==
  \E i \in Tasks :
    LET t == task[i]
        name == casefold(words0(t.line))
    IN  /\ t.pc = "done" /\ t.line # <<>> /\ t.prefixed
        /\ name \in DOMAIN registry
        /\ ~startswith(t.line, IncomingClient)
        /\ get_rule(t.line, FALSE).fun # None
        /\ t.invoked # <<>>

\* C3: every dispatch whose line starts with "Incoming Client:" invokes the
\* announcement handler, and nothing else, whatever was selected before.
C3_AnnouncementOverride ==
  \A i \in Tasks :
    LET t == task[i]
    IN  (t.pc # "idle" /\ startswith(t.line, IncomingClient))
          => /\ Len(t.invoked) = 1
             /\ t.invoked[1].fun = handle_ratmama_announcement

\* a prefixed sentinel line whose first word is a registered alias was
\* dispatched
C3_Witness ==
  \E i \in Tasks :
    LET t == task[i]
    IN  /\ t.pc = "done" /\ t.prefixed
        /\ startswith(t.line, IncomingClient)
        /\ casefold(words0(t.line)) \in DOMAIN registry
        /\ Len(t.invoked) = 1

\* C4: a dispatch of the empty message ends at once with no action: no handler
\* selected or invoked, no rule or fact-store call, no reply, no miss.
C4_EmptyMessageGuard ==
  \A i \in Tasks :
    LET t == task[i]
    IN  (t.pc # "idle" /\ t.line = <<>>)
          => /\ t.pc = "done" /\ t.outcome = "returned" /\ t.result = "None"
             /\ t.command_fun = None /\ t.invoked = <<>> /\ t.ruleCalls = <<>>
             /\ ~t.factEntered /\ t.existsCalls = <<>> /\ t.findCalls = <<>>
             /\ t.replies = <<>> /\ t.missed = 0

\* the empty message was dispatched with the prefix flag set while the empty
\* string is a registered alias
C4_Witness ==
  \E i \in Tasks :
    /\ task[i].pc = "done" /\ task[i].line = <<>> /\ task[i].prefixed
    /\ <<>> \in DOMAIN registry

\* C5 as stated: a dispatch whose prefix flag is not set never enters the Fact
\* Resolver nor calls exists/find, and ends in a miss when no prefixless rule
\* matches.
C5_AsStated ==
  \A i \in Tasks :
    LET t == task[i]
    IN  (t.pc # "idle" /\ ~t.prefixed)
          => /\ ~t.factEntered /\ t.existsCalls = <<>> /\ t.findCalls = <<>>
             /\ get_rule(t.line, TRUE).fun = None
                  => (t.pc = "done" /\ t.missed = 1)

\* C5: a dispatch whose prefix flag is not set never enters the Fact Resolver
\* nor calls exists/find; it ends in a miss when no prefixless rule matches,
\* the message is not empty and the line does not start with the sentinel.
C5_FactOnlyWhenPrefixed ==
  \A i \in Tasks :
    LET t == task[i]
    IN  (t.pc # "idle" /\ ~t.prefixed)
          => /\ ~t.factEntered /\ t.existsCalls = <<>> /\ t.findCalls = <<>>
             /\ (get_rule(t.line, TRUE).fun = None /\ t.line # <<>>
                   /\ ~startswith(t.line, IncomingClient))
                  => (t.pc = "done" /\ t.missed = 1 /\ t.invoked = <<>>)

\* an unprefixed line that names a stored fact and matches no rule was
\* dispatched
C5_Witness ==
  \E i \in Tasks :
    LET t == task[i]
        p == parseString(t.line)
    IN  /\ t.pc = "done" /\ ~t.prefixed /\ t.line # <<>>
        /\ get_rule(t.line, TRUE).fun = None
        /\ p.ok /\ <<casefold(p.name), DefaultLang>> \in DOMAIN facts
        /\ t.missed = 1

\* C6: when steps 2-5 select a handler, that handler is invoked once with the
\* selected arguments and nothing else happens: the Fact Resolver is not
\* entered, the store is not queried, no reply is sent and no miss counted,
\* whatever the handler returns.
C6_HandlerShadowsFacts ==
  \A i \in Tasks :
    LET t == task[i]
        sel == Select(registry, t.line, t.prefixed)
    IN  (t.pc # "idle" /\ t.line # <<>> /\ sel.fun # None)
          => /\ t.invoked = <<[fun |-> sel.fun, args |-> sel.args]>>
             /\ ~t.factEntered /\ t.existsCalls = <<>> /\ t.findCalls = <<>>
             /\ t.replies = <<>> /\ t.missed = 0

\* a handler selected for a prefixed line that names a stored fact returned a
\* falsy value
C6_Witness ==
  \E i \in Tasks :
    LET t == task[i]
        p == parseString(t.line)
    IN  /\ t.pc = "done" /\ t.prefixed /\ t.invoked # <<>>
        /\ t.outcome = "returned" /\ t.result = "None"
        /\ p.ok /\ <<casefold(p.name), DefaultLang>> \in DOMAIN facts

\* the subjects s[1..k] (k >= 1) separated by ", ", built from the left
RECURSIVE CommaSeparated(_, _)
CommaSeparated(s, k) ==
  IF k = 1 THEN s[1] ELSE CommaSeparated(s, k - 1) \o <<",", " ">> \o s[k]

\* C7: when find returns the fact stored under the parsed (name, language),
\* exactly one reply is sent: the message alone when the line has no subject,
\* else the subjects joined by ", " in order, then ": ", then the message.
C7_FactReply ==
  \A i \in Tasks :
    LET t == task[i]
        p == parseString(t.line)
        key == <<casefold(p.name),
                 casefold(IF p.lang = <<>> THEN DefaultLang ELSE p.lang)>>
        k == Len(p.subjects)
    IN  t.found
          => /\ t.prefixed /\ p.ok /\ key \in DOMAIN FactsInit
             /\ t.replies =
                  << IF k = 0 THEN FactsInit[key]
                     ELSE CommaSeparated(p.subjects, k) \o <<":", " ">>
                            \o FactsInit[key] >>

\* a fact was found for a line with two subjects and the reply was sent
C7_Witness ==
  \E i \in Tasks :
    /\ task[i].pc = "done" /\ task[i].found
    /\ Len(task[i].users) = 2 /\ Len(task[i].replies) = 1

\* C8: exists and find are called at most once per dispatch, with the same
\* pair (casefold(name), casefold(lang)), lang being the language token of
\* the line, or "en" when the line has none.
C8_FactLanguage ==
  \A i \in Tasks :
    LET t == task[i]
        p == parseString(t.line)
        pair == <<casefold(p.name),
                  casefold(IF p.lang = <<>> THEN <<"e","n">> ELSE p.lang)>>
    IN  /\ t.existsCalls \in {<<>>, <<pair>>}
        /\ t.findCalls \in {<<>>, <<pair>>}
        /\ (t.factEntered /\ p.ok) => t.existsCalls = <<pair>>
        /\ t.findCalls # <<>> => t.findCalls = t.existsCalls
        /\ (t.line = <<"f","x","-","F","R"," ","u">> /\ t.factEntered)
             => t.existsCalls = << <<sFx, sFr>> >>
        /\ (t.line = sFx /\ t.factEntered)
             => t.existsCalls = << <<sFx, <<"e","n">> >> >>

\* a line with an upper-case language token was resolved: exists and find
\* were both called
C8_Witness ==
  \E i \in Tasks :
    /\ task[i].pc = "done" /\ task[i].lang = <<"F","R">>
    /\ task[i].findCalls # <<>> /\ task[i].found

\* C9: a dispatch of a non-empty message increments the miss counter exactly
\* once if no handler was invoked and no fact reply was sent, and leaves it
\* unchanged otherwise.
C9_MissAccounting ==
  \A i \in Tasks :
    LET t == task[i]
    IN  (t.pc = "done" /\ t.line # <<>>)
          => t.missed = (IF t.invoked = <<>> /\ t.replies = <<>> THEN 1 ELSE 0)

\* C10: a storage error raised by exists or find stays inside the Fact
\* Resolver: no reply is sent and the dispatch returns normally, as a miss
\* counted once.
C10_StorageErrorContained ==
  \A i \in Tasks :
    LET t == task[i]
    IN  t.storageError
          => /\ t.pc = "done" /\ t.outcome = "returned" /\ t.result = "None"
             /\ t.replies = <<>> /\ t.missed = 1 /\ missCount >= 1

\* find raised a storage error after exists had returned true
C10_Witness ==
  \E i \in Tasks :
    /\ task[i].storageError /\ task[i].findCalls # <<>>
    /\ task[i].pc = "done"

\* C11: when the fact is deleted between exists (which answered true) and
\* find, the Fact Resolver degrades to "no result" however find signals the
\* missing fact: the dispatch does not raise, sends no reply and ends as a miss.
C11_RaceDegrades ==
  \A i \in Tasks :
    LET t == task[i]
    IN  (/\ t.pc = "done" /\ t.findCalls # <<>> /\ ~t.found
         /\ t.findCalls[Len(t.findCalls)] \notin DOMAIN facts)
          => t.outcome = "returned" /\ t.replies = <<>> /\ t.missed = 1

\* C12: constructing a Command fails validation when the handler is not
\* callable, when the alias tuple is empty and when it holds a falsy entry, so
\* no Command with an empty-string alias is ever registered by the decorator.
C12_NoFalsyAlias ==
  /\ \A k \in DOMAIN registry :
       registry[k].kind = "Command"
         => /\ registry[k].underlying # "None"
            /\ registry[k].aliases # <<>>
            /\ \A j \in DOMAIN registry[k].aliases : registry[k].aliases[j] # <<>>

\* C13: for every Command that declares a required permission level or a
\* channel or direct-message constraint, an invocation by a Context that does
\* not satisfy it is answered with a denial message and never invokes the
\* underlying handler.
C13_PermissionGate ==
  \A i \in Tasks :
    LET t == task[i]
    IN  \A j \in DOMAIN t.invoked :
          LET c == t.invoked[j].fun
          IN  (/\ c.kind = "Command"
               /\ (c.require_permission # "None" \/ c.require_channel
                     \/ c.require_direct_message)
               /\ ~t.authorized)
                => t.underlyingCalls = <<>> /\ t.replies # <<>>

\* C14: every invocation of a Command starts one timing measurement labelled
\* with the Command's first alias and records it exactly once, when the
\* underlying handler returns and when it raises; the handler's error leaves
\* the Command after the measurement was recorded. Other handlers are not timed.
C14_CommandTiming ==
  \A i \in Tasks :
    LET t == task[i]
    IN  IF t.invoked # <<>> /\ t.invoked[1].fun.kind = "Command"
          THEN /\ Len(t.invoked) = 1
               /\ t.timerStarted = 1
               /\ t.timerLabel = t.invoked[1].fun.aliases[1]
               /\ t.timerRecorded = (IF t.pc = "done" THEN 1 ELSE 0)
               /\ t.handlerRaised => t.pc = "done" /\ t.outcome = "raised"
          ELSE t.timerStarted = 0 /\ t.timerRecorded = 0

\* the handler of the Command registered as "GO" raised
C14_Witness ==
  \E i \in Tasks :
    /\ task[i].handlerRaised /\ task[i].timerRecorded = 1
    /\ task[i].timerLabel = sGO
    /\ task[i].invoked[1].fun.kind = "Command"

\* C15 as stated: every key of the registry is a case-folded string; a
\* prefixed dispatch selects a registered Command exactly when the case-fold of
\* its first word is the case-fold of a registered alias, and otherwise asks
\* the Rule Resolver.
C15_AsStated ==
  /\ \A k \in DOMAIN registry :
       /\ k = casefold(k)
       /\ registry[k].kind = "Command"
            => \E j \in DOMAIN registry[k].aliases :
                 casefold(registry[k].aliases[j]) = k
  /\ \A i \in Tasks :
       LET t == task[i]
           match == \E k \in DOMAIN registry : casefold(words0(t.line)) = k
       IN  (t.pc # "idle" /\ t.prefixed)
             => /\ (t.invoked # <<>> /\ t.ruleCalls = <<>>) <=> match
                /\ ~match => t.ruleCalls = <<FALSE>>

\* C15: every key of the registry is a case-folded string; a prefixed dispatch
\* of a non-empty message selects a registered Command exactly when the
\* case-fold of its first word is the case-fold of a registered alias, and
\* otherwise asks the Rule Resolver.
C15_CaseInsensitiveLookup ==
  /\ \A k \in DOMAIN registry :
       /\ k = casefold(k)
       /\ registry[k].kind = "Command"
            => \E j \in DOMAIN registry[k].aliases :
                 casefold(registry[k].aliases[j]) = k
  /\ \A i \in Tasks :
       LET t == task[i]
           match == \E k \in DOMAIN registry : casefold(words0(t.line)) = k
       IN  (t.pc # "idle" /\ t.prefixed /\ t.line # <<>>)
             => /\ (t.invoked # <<>> /\ t.ruleCalls = <<>>) <=> match
                /\ match /\ ~startswith(t.line, IncomingClient)
                     => t.invoked[1].fun = registry[casefold(words0(t.line))]
                /\ ~match => t.ruleCalls = <<FALSE>>

\* the line "GO u" selected the Command registered with the alias "GO"
C15_Witness ==
  \E i \in Tasks :
    /\ task[i].prefixed /\ words0(task[i].line) = sGO
    /\ task[i].invoked # <<>> /\ task[i].ruleCalls = <<>>
    /\ task[i].invoked[1].fun.kind = "Command"
    /\ task[i].invoked[1].fun.aliases = <<sGO>>

\* C16: when the selected command, rule or announcement handler raises, the
\* dispatch ends by propagating the error: the Dispatcher does not fall back to
\* the facts, sends nothing and does not increment the miss counter.
C16_HandlerErrorPropagates ==
  \A i \in Tasks :
    LET t == task[i]
    IN  t.handlerRaised
          => /\ t.pc = "done" /\ t.outcome = "raised"
             /\ ~t.factEntered /\ t.existsCalls = <<>> /\ t.findCalls = <<>>
             /\ t.replies = <<>> /\ t.missed = 0

\* the announcement handler raised
C16_Witness ==
  \E i \in Tasks :
    /\ task[i].handlerRaised
    /\ task[i].invoked[1].fun = handle_ratmama_announcement

\* C17: the fact parser splits the line only at whitespace and at the single
\* "-" that joins name and language: the name is the whole first
\* whitespace-delimited word, up to an optional "-lang" suffix, and the
\* subjects are the whole later words; a first word of another form is never
\* split into a shorter name and a subject.
C17_WholeWordTokens ==
  \A i \in Tasks :
    LET t == task[i]
        w == words(t.line)
    IN  (t.factEntered /\ t.existsCalls # <<>>)
          => /\ w[1] = t.fact \/ w[1] = t.fact \o <<"-">> \o t.lang
             /\ t.users = Tail(w)

\* a dispatch that ended unhandled: it returned, for a non-empty message,
\* with no handler invoked and no reply sent
Unhandled(i) ==
  /\ task[i].pc = "done" /\ task[i].outcome = "returned"
  /\ task[i].line # <<>>
  /\ task[i].invoked = <<>> /\ task[i].replies = <<>>

\* C18: when dispatches run concurrently and interleave at their suspension
\* points, no update of the miss counter is lost or duplicated: in every state
\* the counter is the number of dispatches that ended unhandled so far, hence
\* also after all of them completed, and its value never decreases.
C18_ConcurrentMissCount ==
  /\ [](missCount = Cardinality({i \in Tasks : Unhandled(i)}))
  /\ [][missCount' >= missCount]_vars

\* two dispatches that overlapped both ended unhandled after the store had
\* answered them
C18_Witness ==
  \E i, j \in Tasks :
    /\ i # j /\ Unhandled(i) /\ Unhandled(j)
    /\ task[i].existsCalls # <<>> /\ task[j].existsCalls # <<>>
    /\ task[j].overlapped
    /\ missCount = 2

\* C19: registry entries are write-once - no register call overwrites or
\* removes an entry, so every alias keeps the handler of the first call that
\* inserted it.
C19_WriteOnce ==
  [][\A k \in DOMAIN registry :
       k \in DOMAIN registry' /\ registry'[k] = registry[k]]_vars

\* "go" still maps to h2 after a later call collided
C19_Witness ==
  /\ regResult = "NameCollisionException"
  /\ sGo \in DOMAIN registry /\ registry[sGo] = Function("h2")
  /\ sHi \in DOMAIN registry /\ registry[sHi].kind = "Command"

\* C20: when the line starts with "Incoming Client:", the override replaces
\* the handler only: the announcement handler is invoked with the Context
\* followed by the extra arguments of the rule that had been selected (none
\* after a registered command or when no rule matched).
C20_OverrideKeepsArgs ==
  \A i \in Tasks :
    LET t == task[i]
        rule == get_rule(t.line, ~t.prefixed)
    IN  (t.pc # "idle" /\ startswith(t.line, IncomingClient))
          => t.invoked =
               <<[fun |-> handle_ratmama_announcement,
                  args |-> IF t.prefixed /\ casefold(words0(t.line)) \in DOMAIN registry
                             THEN <<>> ELSE rule.args]>>

\* the announcement handler was called with the argument of an overridden rule
C20_Witness ==
  \E i \in Tasks :
    /\ startswith(task[i].line, IncomingClient)
    /\ get_rule(task[i].line, ~task[i].prefixed).fun = Function("rule_in")
    /\ task[i].invoked # <<>>
    /\ task[i].invoked[1].fun = handle_ratmama_announcement
    /\ task[i].invoked[1].args = <<"z">>

====
